---- MODULE Spec2Model ----
(***************************************************************************)
(* Model of pgm_to_sdf_converter: the occupancy thresholding and the       *)
(* two-pass wall aggregation of WallAggregationExtractor, the row/column   *)
(* merging of SegmentMerger, and the noise analysis and enhancement of     *)
(* PGMEnhancer.                                                            *)
(*                                                                         *)
(* Grids are functions [0..height-1 -> [0..width-1 -> value]], indexed     *)
(* grid[y][x] as the numpy arrays are.  Segments are the dicts of the      *)
(* source, as records whose DOMAIN is the dict's key set ("start_y" in seg *)
(* is "start_y" \in DOMAIN seg).                                           *)
(*                                                                         *)
(* Occupancy probabilities are float32 values v/255 (or v, or 1 - v/255).  *)
(* They are kept as integers in units of 1/510: the levels v/255 are the   *)
(* even numbers 2v, a threshold equal to a level is that even number and   *)
(* a threshold strictly between two neighbouring levels is the odd number  *)
(* between them.  Rounding keeps the levels strictly ordered (they are     *)
(* 1/255 apart), so every comparison of the source has the same outcome.   *)
(***************************************************************************)
EXTENDS Integers, Sequences, FiniteSets, TLC

\* ------------------------------------------------------------------ bounds
\* largest number of cells (height * width) of an input grid
MaxCells == 9
\* longest sequence of arbitrary segments handed to merge_segments directly
MaxSegs == 2
\* longest sequence of segments of one extent handed to merge_segments directly
MaxStack == 3
\* largest row/column index of a directly drawn segment
MaxPos == 2
\* largest start/end index of the extent of a directly drawn segment
MaxExt == 1
\* largest height and width of a fully occupied input grid
MaxFull == 5
\* largest number of cells of a small grid handed to convert
MaxConvCells == 3
\* largest number of cells of a small grid handed to enhance_pgm
MaxEnhCells == 6
\* largest number of white cells in a black block handed to enhance_pgm
MaxHoles == 2
\* largest number of single-cell specks after the run of a stripe row
MaxSpecks == 7
\* largest number of occupied cells of the directly drawn noise counts
MaxTotal == 30
\* largest directly drawn number of components
MaxComponents == 7

\* --------------------------------------------------------------- constants
\* the divisor of the normalisation, image_data / 255.0
MaxGray == 255
\* probabilities are counted in units of 1/(2*255)
ProbScale == 2 * MaxGray

VARIABLES
    pc,               \* which call has been made: "init", "extracted", "merged", ...
    image_data,       \* WallAggregationExtractor.image_data
    height,           \* WallAggregationExtractor.height
    width,            \* WallAggregationExtractor.width
    negate,           \* WallAggregationExtractor.negate
    occupied_thresh,  \* WallAggregationExtractor.occupied_thresh, in units of 1/510
    enable_merging,   \* WallAggregationExtractor.enable_merging
    resolution,       \* WallAggregationExtractor.resolution, in centimetres per cell
    origin,           \* WallAggregationExtractor.origin, <<x, y>> in centimetres
    occupied_grid,    \* extract_walls: occupied_grid
    grid_for_vertical, \* _aggregate_vertical: grid_for_vertical after the zeroing
    h_segments,       \* extract_walls: h_segments
    v_segments,       \* extract_walls: v_segments
    all_segments,     \* extract_walls: all_segments (after the optional merge)
    walls,            \* the list extract_walls returns
    pixel_coords,     \* the argument of a direct _pixel_to_world call, in half cells
    world_coords,     \* _pixel_to_world(pixel_coords), in half centimetres
    segments,         \* the argument of a direct merge_segments call
    merged,           \* merge_segments(segments)
    remerged,         \* merge_segments(merge_segments(segments))
    merge_tolerance,  \* SegmentMerger.merge_tolerance, in centimetres
    original_data,    \* the grid handed to enhance_pgm
    adaptive,         \* the adaptive argument of enhance_pgm
    closing_size,     \* PGMEnhancer.closing_size
    closing_iterations, \* PGMEnhancer.closing_iterations
    median_size,      \* PGMEnhancer.median_size
    min_component_size, \* PGMEnhancer.min_component_size
    enhanced_data,    \* the grid enhance_pgm returns
    was_enhanced,     \* the flag enhance_pgm returns
    small_component_pixels, \* analyze_map_noise: small_component_pixels
    total_occupied,   \* analyze_map_noise: total_occupied
    num_components,   \* analyze_map_noise: num_components
    noise_level,      \* analyze_map_noise: noise_level
    has_grainy_boundaries, \* analyze_map_noise: has_grainy_boundaries
    adaptive_params,  \* enhance_pgm: adaptive_params
    pgm_file,         \* convert: what the file at metadata.image_path holds
    user_negate,      \* convert: the negate value of the YAML file
    keep_cleaned_pgm, \* convert: keep_cleaned_pgm
    min_wall_size,    \* convert: min_wall_size, in cells
    min_wall_length,  \* convert: min_wall_length, in centimetres
    fault,            \* convert: the step that raises for an outside reason, or "none"
    pgm_path_to_use,  \* convert: pgm_path_to_use
    enhanced_pgm_path, \* convert: enhanced_pgm_path
    enhanced_file,    \* convert: what the file at enhanced_pgm_path holds
    sdf_walls,        \* convert: the walls handed to SDFGenerator.generate
    output_file,      \* convert: what the file at output_path holds
    raised,           \* convert: the step whose exception left convert, or "none"
    exit_code         \* main: the value returned, NoExit until it returns

extractorVars == <<image_data, height, width, negate, occupied_thresh, enable_merging,
                   resolution, origin, occupied_grid, grid_for_vertical, h_segments,
                   v_segments, all_segments, walls>>
worldVars == <<pixel_coords, world_coords>>
convertArgs == <<pgm_file, user_negate, keep_cleaned_pgm, min_wall_size, min_wall_length,
                 fault>>
convertVars == <<pgm_file, user_negate, keep_cleaned_pgm, min_wall_size, min_wall_length,
                 fault, pgm_path_to_use, enhanced_pgm_path, enhanced_file, sdf_walls,
                 output_file, raised, exit_code>>
mergerVars == <<segments, merged, remerged, merge_tolerance>>
enhancerVars == <<original_data, adaptive, closing_size, closing_iterations, median_size,
                  min_component_size, enhanced_data, was_enhanced>>
noiseVars == <<small_component_pixels, total_occupied, num_components, noise_level,
               has_grainy_boundaries, adaptive_params>>
vars == <<pc, extractorVars, mergerVars, enhancerVars, noiseVars, worldVars, convertVars>>

Range(s) == {s[i] : i \in DOMAIN s}

\* a grid variable before it is assigned
NoGrid == <<>>

\* main has not returned
NoExit == -1

\* the element of a one-element set
Only(S) == CHOOSE x \in S : TRUE

RECURSIVE Concat(_)
\* the concatenation of a sequence of sequences
Concat(ss) == IF ss = <<>> THEN <<>> ELSE Head(ss) \o Concat(Tail(ss))

\* ===================================================== _get_occupied_grid
GridMax(grid, h, w) ==
    CHOOSE m \in {grid[y][x] : y \in 0..h-1, x \in 0..w-1} :
        \A y \in 0..h-1, x \in 0..w-1 : grid[y][x] <= m

\* image_data / 255.0 when image_data.max() > 1, image_data itself otherwise
Normalized(v, mx) == IF mx > 1 THEN 2 * v ELSE ProbScale * v

\* 1.0 - normalized when negate is truthy, normalized otherwise
OccupancyProb(v, mx, neg) ==
    IF neg # 0 THEN ProbScale - Normalized(v, mx) ELSE Normalized(v, mx)

\* occupancy_prob >= self.occupied_thresh
IsOccupied(prob, thresh) == prob >= thresh

GetOccupiedGrid(img, h, w, neg, thresh) ==
    LET mx == GridMax(img, h, w)
    IN  [y \in 0..h-1 |-> [x \in 0..w-1 |->
            IF IsOccupied(OccupancyProb(img[y][x], mx, neg), thresh) THEN 1 ELSE 0]]

\* =================================================== _aggregate_horizontal
RECURSIVE ExtendRow(_, _, _, _)
\* while end_x + 1 < width and grid[y, end_x + 1] == 1: end_x += 1
ExtendRow(grid, w, y, end_x) ==
    IF end_x + 1 < w /\ grid[y][end_x + 1] = 1
    THEN ExtendRow(grid, w, y, end_x + 1)
    ELSE end_x

\* HorizontalSegment recording the column after the run as its end
HorizontalSegmentEndExclusive(y, start_x, end_x) ==
    [type |-> "horizontal", y |-> y, start_x |-> start_x, end_x |-> end_x + 1,
     length_px |-> end_x - start_x + 1]

HorizontalSegment(y, start_x, end_x) ==
    [type |-> "horizontal", y |-> y, start_x |-> start_x, end_x |-> end_x,
     length_px |-> end_x - start_x + 1]

\* grid[y, x] == 1 and (x == 0 or grid[y, x - 1] == 0)
StartsRow(grid, y, x) == grid[y][x] = 1 /\ (x = 0 \/ grid[y][x - 1] = 0)

RECURSIVE ScanRow(_, _, _, _)
\* the inner while loop of one row, from column x on
ScanRow(grid, w, y, x) ==
    IF x >= w THEN <<>>
    ELSE IF StartsRow(grid, y, x)
         THEN LET end_x == ExtendRow(grid, w, y, x)
              IN  <<HorizontalSegment(y, x, end_x)>> \o ScanRow(grid, w, y, end_x + 1)
         ELSE ScanRow(grid, w, y, x + 1)

\* AggregateHorizontal scanning the rows from the last to the first
AggregateHorizontalBottomUp(grid, h, w) ==
    Concat([i \in 1..h |-> ScanRow(grid, w, h - i, 0)])

AggregateHorizontal(grid, h, w) ==
    Concat([i \in 1..h |-> ScanRow(grid, w, i - 1, 0)])

\* ===================================================== _aggregate_vertical
\* ZeroedByPass1 sparing the runs of two cells as well
ZeroedByPass1LongerThanTwo(seg) == seg.length_px > 2

\* ZeroedByPass1 taking the runs of one cell as well
ZeroedByPass1EveryRun(seg) == seg.length_px >= 1

\* for seg in horizontal_segments: if seg["length_px"] > 1: zero its cells
ZeroedByPass1(seg) == seg.length_px > 1

GridForVertical(grid, h, w, hsegs) ==
    [y \in 0..h-1 |-> [x \in 0..w-1 |->
        IF \E i \in DOMAIN hsegs :
               /\ ZeroedByPass1(hsegs[i])
               /\ hsegs[i].y = y
               /\ hsegs[i].start_x <= x
               /\ x <= hsegs[i].end_x
        THEN 0 ELSE grid[y][x]]]

\* GridAfterPass2 with the zeroing done on the caller's array
GridAfterPass2InPlace(grid, h, w, hsegs) == GridForVertical(grid, h, w, hsegs)

\* the caller's grid after _aggregate_vertical returns: the zeroing runs on
\* grid.copy(), the argument keeps its cells
GridAfterPass2(grid, h, w, hsegs) == grid

RECURSIVE ExtendColumn(_, _, _, _)
\* while end_y + 1 < height and grid_for_vertical[end_y + 1, x] == 1: end_y += 1
ExtendColumn(grid, h, x, end_y) ==
    IF end_y + 1 < h /\ grid[end_y + 1][x] = 1
    THEN ExtendColumn(grid, h, x, end_y + 1)
    ELSE end_y

VerticalSegment(x, start_y, end_y) ==
    [type |-> "vertical", x |-> x, start_y |-> start_y, end_y |-> end_y,
     length_px |-> end_y - start_y + 1]

\* grid_for_vertical[y, x] == 1 and (y == 0 or grid_for_vertical[y - 1, x] == 0)
StartsColumn(grid, y, x) == grid[y][x] = 1 /\ (y = 0 \/ grid[y - 1][x] = 0)

RECURSIVE ScanColumn(_, _, _, _)
\* the inner while loop of one column, from row y on
ScanColumn(grid, h, x, y) ==
    IF y >= h THEN <<>>
    ELSE IF StartsColumn(grid, y, x)
         THEN LET end_y == ExtendColumn(grid, h, x, y)
              IN  <<VerticalSegment(x, y, end_y)>> \o ScanColumn(grid, h, x, end_y + 1)
         ELSE ScanColumn(grid, h, x, y + 1)

AggregateVertical(grid, h, w, hsegs) ==
    LET working_copy == GridForVertical(grid, h, w, hsegs)
    IN  Concat([i \in 1..w |-> ScanColumn(working_copy, h, i - 1, 0)])

\* ============================================================ SegmentMerger
RECURSIVE ExtentKeys(_, _, _)
\* the keys of extent_groups in insertion order: each (lo, hi) pair once, in the
\* order of its first segment
ExtentKeys(segs, lo, hi) ==
    IF segs = <<>> THEN <<>>
    ELSE LET n == Len(segs)
             rest == ExtentKeys(SubSeq(segs, 1, n - 1), lo, hi)
             extent == <<segs[n][lo], segs[n][hi]>>
         IN  IF extent \in Range(rest) THEN rest ELSE Append(rest, extent)

\* ExtentGroup comparing the end of the extent only
ExtentGroupByEnd(segs, lo, hi, extent) ==
    SelectSeq(segs, LAMBDA s : s[hi] = extent[2])

\* ExtentGroup comparing the start of the extent only
ExtentGroupByStart(segs, lo, hi, extent) ==
    SelectSeq(segs, LAMBDA s : s[lo] = extent[1])

\* extent_groups[extent]: the segments of that extent, in input order
ExtentGroup(segs, lo, hi, extent) ==
    SelectSeq(segs, LAMBDA s : <<s[lo], s[hi]>> = extent)

RECURSIVE InsertByKey(_, _, _)
InsertByKey(sorted, s, key) ==
    IF sorted = <<>> THEN <<s>>
    ELSE IF Head(sorted)[key] <= s[key]
         THEN <<Head(sorted)>> \o InsertByKey(Tail(sorted), s, key)
         ELSE <<s>> \o sorted

RECURSIVE SortByKey(_, _)
\* extent_segments.sort(key=lambda s: s[key]): ascending and stable
SortByKey(segs, key) ==
    IF segs = <<>> THEN <<>>
    ELSE LET n == Len(segs)
         IN  InsertByKey(SortByKey(SubSeq(segs, 1, n - 1), key), segs[n], key)

\* current = seg.copy(); current[lo] = current[pos]; current[hi] = current[pos]
StartRun(seg, pos, lo, hi) == (lo :> seg[pos] @@ hi :> seg[pos]) @@ seg

\* IsAdjacent accepting a gap of one row or column
IsAdjacentWithinTwo(next_pos, current_end) ==
    next_pos > current_end /\ next_pos <= current_end + 2

\* IsAdjacent accepting any later row or column, gaps included
IsAdjacentAcrossGap(next_pos, current_end) == next_pos > current_end

\* next_seg[pos] == current[hi] + 1
IsAdjacent(next_pos, current_end) == next_pos = current_end + 1

RECURSIVE MergeRuns(_, _, _, _, _, _)
\* the loop "for i in range(1, len(extent_segments))" from index i on (1-based
\* here), followed by the final merged.append(current)
MergeRuns(sorted, i, current, pos, lo, hi) ==
    IF i > Len(sorted) THEN <<current>>
    ELSE LET next_seg == sorted[i]
         IN  IF IsAdjacent(next_seg[pos], current[hi])
             THEN MergeRuns(sorted, i + 1, [current EXCEPT ![hi] = next_seg[pos]],
                            pos, lo, hi)
             ELSE <<current>> \o
                  MergeRuns(sorted, i + 1, StartRun(next_seg, pos, lo, hi), pos, lo, hi)

\* one iteration of "for extent, extent_segments in extent_groups.items()"
MergeGroup(group, pos, lo, hi) ==
    LET sorted == SortByKey(group, pos)
    IN  MergeRuns(sorted, 2, StartRun(sorted[1], pos, lo, hi), pos, lo, hi)

\* groups by the (glo, ghi) extent, merges along pos into [lo, hi]
MergeAligned(segs, glo, ghi, pos, lo, hi) ==
    LET keys == ExtentKeys(segs, glo, ghi)
    IN  Concat([k \in 1..Len(keys) |->
                   MergeGroup(ExtentGroup(segs, glo, ghi, keys[k]), pos, lo, hi)])

MergeHorizontalSegments(segs) ==
    IF Len(segs) = 0 THEN <<>>
    ELSE MergeAligned(segs, "start_x", "end_x", "y", "start_y", "end_y")

MergeVerticalSegments(segs) ==
    IF Len(segs) = 0 THEN <<>>
    ELSE MergeAligned(segs, "start_y", "end_y", "x", "start_x", "end_x")

MergeSegments(segs) ==
    IF Len(segs) = 0 THEN <<>>
    ELSE LET horizontal == SelectSeq(segs, LAMBDA s : s.type = "horizontal")
             vertical == SelectSeq(segs, LAMBDA s : s.type = "vertical")
         IN  MergeHorizontalSegments(horizontal) \o MergeVerticalSegments(vertical)

\* SegmentsAfterMerge with the run bounds written into the caller's dicts
SegmentsAfterMergeInPlace(segs) ==
    [i \in DOMAIN segs |->
        IF segs[i].type = "horizontal"
        THEN StartRun(segs[i], "y", "start_y", "end_y")
        ELSE StartRun(segs[i], "x", "start_x", "end_x")]

\* the caller's list after merge_segments returns: the groups are new lists and
\* every run starts from seg.copy(), the argument keeps its dicts
SegmentsAfterMerge(segs) == segs

\* SegmentMerger(merge_tolerance): the fields of the merger
SegmentMerger(tolerance) == [merge_tolerance |-> tolerance]

\* MergeSegmentsOf switching the merge off when the tolerance is zero
MergeSegmentsOffAtZeroTolerance(self, segs) ==
    IF self.merge_tolerance = 0 THEN segs ELSE MergeSegments(segs)

\* self.merge_segments(segs): the list the method returns for the merger self;
\* merge_tolerance is read for the progress message only
MergeSegmentsOf(self, segs) == MergeSegments(segs)

\* ========================================================== _segments_to_walls
\* the pixel rectangle [start_y_px, end_y_px] x [start_x_px, end_x_px] that
\* _segments_to_walls reads from a segment, as a set of cells <<y, x>>
SegCells(seg) ==
    IF seg.type = "horizontal"
    THEN LET ys == IF "start_y" \in DOMAIN seg /\ "end_y" \in DOMAIN seg
                   THEN seg["start_y"]..seg["end_y"] ELSE {seg["y"]}
         IN  {<<y, x>> : y \in ys, x \in seg["start_x"]..seg["end_x"]}
    ELSE LET xs == IF "start_x" \in DOMAIN seg /\ "end_x" \in DOMAIN seg
                   THEN seg["start_x"]..seg["end_x"] ELSE {seg["x"]}
         IN  {<<y, x>> : y \in seg["start_y"]..seg["end_y"], x \in xs}

\* PixelToWorld taking row 0 as the top row of cells, height - 1 above the origin
PixelToWorldFromTopRow(pixel, org, res, h) ==
    <<2 * org[1] + pixel[1] * res, 2 * org[2] + (2 * (h - 1) - pixel[2]) * res>>

\* _pixel_to_world: x_world = origin[0] + x_px * resolution and
\* y_world = origin[1] + (height - y_px) * resolution.  pixel is <<2 x_px, 2 y_px>>
\* (centres of runs are half integers), the result <<2 x_world, 2 y_world>>.
PixelToWorld(pixel, org, res, h) ==
    <<2 * org[1] + pixel[1] * res, 2 * org[2] + (2 * h - pixel[2]) * res>>

\* the first and last column _segments_to_walls reads from a segment
ColumnsOf(seg) ==
    IF seg.type = "horizontal" \/ ("start_x" \in DOMAIN seg /\ "end_x" \in DOMAIN seg)
    THEN <<seg["start_x"], seg["end_x"]>> ELSE <<seg["x"], seg["x"]>>

\* RowsOf reading only the row of a horizontal segment, merged or not
RowsOfSingleRow(seg) ==
    IF seg.type # "horizontal"
    THEN <<seg["start_y"], seg["end_y"]>> ELSE <<seg["y"], seg["y"]>>

\* the first and last row _segments_to_walls reads from a segment
RowsOf(seg) ==
    IF seg.type # "horizontal" \/ ("start_y" \in DOMAIN seg /\ "end_y" \in DOMAIN seg)
    THEN <<seg["start_y"], seg["end_y"]>> ELSE <<seg["y"], seg["y"]>>

\* one Wall: the centre in world coordinates (x, y in half centimetres), width_m
\* and length_m in centimetres
SegmentToWall(seg, org, res, h) ==
    LET columns == ColumnsOf(seg)
        rows == RowsOf(seg)
        center_world == PixelToWorld(<<columns[1] + columns[2], rows[1] + rows[2]>>,
                                     org, res, h)
    IN  [x |-> center_world[1], y |-> center_world[2],
         width |-> (columns[2] - columns[1] + 1) * res,
         length |-> (rows[2] - rows[1] + 1) * res,
         angle |-> 0]

SegmentsToWalls(segs, org, res, h) ==
    [i \in DOMAIN segs |-> SegmentToWall(segs[i], org, res, h)]

\* the cells covered by a segment sequence
Coverage(segs) == UNION {SegCells(segs[i]) : i \in DOMAIN segs}

\* the cells of a grid that hold 1
OccupiedCells(grid, h, w) == {<<y, x>> \in (0..h-1) \X (0..w-1) : grid[y][x] = 1}

\* ============================================================== PGMEnhancer
\* the threshold of "enhanced < 128"
OccupiedBelow == 128
\* components smaller than this count as small ("size < 20")
SmallComponentLimit == 20
\* the intensity of a free cell in an enhanced grid
FreeValue == 254

GridHeight(grid) == Cardinality(DOMAIN grid)
GridWidth(grid) == IF DOMAIN grid = {} THEN 0 ELSE Cardinality(DOMAIN grid[0])
GridCells(grid) == (0..GridHeight(grid) - 1) \X (0..GridWidth(grid) - 1)

Shift(c, o) == <<c[1] + o[1], c[2] + o[2]>>

Max(a, b) == IF a >= b THEN a ELSE b

\* the cross of generate_binary_structure(2, 1), without its centre
CrossOffsets == {<<-1, 0>>, <<1, 0>>, <<0, -1>>, <<0, 1>>}

RECURSIVE Flood(_, _, _)
\* the cells of mask reachable from frontier through the cross, added to seen
Flood(mask, frontier, seen) ==
    IF frontier = {} THEN seen
    ELSE LET next == {n \in {Shift(c, o) : c \in frontier, o \in CrossOffsets} :
                          n \in mask /\ n \notin seen}
         IN  Flood(mask, next, seen \cup next)

RECURSIVE Label(_)
\* ndimage.label(mask): the 4-connected components, as a set of cell sets
Label(mask) ==
    IF mask = {} THEN {}
    ELSE LET seed == CHOOSE c \in mask : TRUE
             component == Flood(mask, {seed}, {seed})
         IN  {component} \cup Label(mask \ component)

\* np.sum(boundary): the cells of a component that binary_erosion (cross
\* structure, cells outside the array count as 0) removes
Perimeter(component) ==
    Cardinality({c \in component : \E o \in CrossOffsets : Shift(c, o) \notin component})

\* floor(100 * perimeter / sqrt(size))
RoughnessPercent(perimeter, size) ==
    CHOOSE r \in 0..(100 * perimeter) :
        /\ r * r * size <= 10000 * perimeter * perimeter
        /\ (r + 1) * (r + 1) * size > 10000 * perimeter * perimeter

RECURSIVE SumRoughnessPercent(_)
SumRoughnessPercent(components) ==
    IF components = {} THEN 0
    ELSE LET c == CHOOSE c \in components : TRUE
         IN  RoughnessPercent(Perimeter(c), Cardinality(c))
             + SumRoughnessPercent(components \ {c})

\* boundary_roughness > 10.0, boundary_roughness the mean of perimeter/sqrt(size)
\* over the components of at least 20 cells (0.0 when there is none).  One sample
\* is compared exactly; the mean of several is taken over the samples cut to
\* two decimals.
HasGrainyBoundaries(components) ==
    LET big == {c \in components : Cardinality(c) >= SmallComponentLimit}
    IN  IF big = {} THEN FALSE
        ELSE IF Cardinality(big) = 1
             THEN LET c == CHOOSE c \in big : TRUE
                  IN  Perimeter(c) * Perimeter(c) > 100 * Cardinality(c)
             ELSE SumRoughnessPercent(big) > 1000 * Cardinality(big)

\* small_component_ratio > percent/100, with
\* small_component_ratio = small_component_pixels / total_occupied
RatioExceeds(small, total, percent) == 100 * small > percent * total

\* fragmentation_score > 5.0, with
\* fragmentation_score = num_components / max(total_occupied / 100, 1)
FragmentationExceeds(num, total) == 100 * num > 5 * Max(total, 100)

\* NoiseLevel with the heavy test written >=
NoiseLevelInclusive(small, total, num) ==
    IF 100 * small >= 14 * total THEN 2
    ELSE IF RatioExceeds(small, total, 10) /\ FragmentationExceeds(num, total) THEN 1
    ELSE 0

NoiseLevel(small, total, num) ==
    IF RatioExceeds(small, total, 14) THEN 2
    ELSE IF RatioExceeds(small, total, 10) /\ FragmentationExceeds(num, total) THEN 1
    ELSE 0

\* the occupied mask of analyze_map_noise: normalized < 0.5
NoiseMask(img) ==
    LET mx == GridMax(img, GridHeight(img), GridWidth(img))
    IN  {c \in GridCells(img) : Normalized(img[c[1]][c[2]], mx) < MaxGray}

AnalyzeMapNoise(img) ==
    LET occupied_mask == NoiseMask(img)
        components == Label(occupied_mask)
        small == Cardinality(UNION {c \in components :
                                       Cardinality(c) < SmallComponentLimit})
        total == Cardinality(occupied_mask)
    IN  IF occupied_mask = {}
        THEN [small_component_pixels |-> 0, total_occupied |-> 0, num_components |-> 0,
              has_grainy_boundaries |-> FALSE, noise_level |-> 0]
        ELSE [small_component_pixels |-> small,
              total_occupied |-> total,
              num_components |-> Cardinality(components),
              has_grainy_boundaries |-> HasGrainyBoundaries(components),
              noise_level |-> NoiseLevel(small, total, Cardinality(components))]

\* adaptive_params before get_adaptive_parameters was called
NoParams ==
    [closing_size |-> 0, closing_iterations |-> 0, min_component_size |-> 0,
     apply_enhancement |-> FALSE, enhancement_type |-> "unset"]

\* GetAdaptiveParameters with grain turning a moderate map into a heavy one
GetAdaptiveParametersGrainIsHeavy(noise_metrics) ==
    IF noise_metrics.noise_level = 0
    THEN IF noise_metrics.has_grainy_boundaries
         THEN [closing_size |-> 4, closing_iterations |-> 1, min_component_size |-> 0,
               apply_enhancement |-> TRUE, enhancement_type |-> "boundary_smoothing"]
         ELSE [closing_size |-> 0, closing_iterations |-> 0, min_component_size |-> 3,
               apply_enhancement |-> FALSE, enhancement_type |-> "none"]
    ELSE IF noise_metrics.noise_level = 1 /\ ~noise_metrics.has_grainy_boundaries
    THEN [closing_size |-> 3, closing_iterations |-> 1, min_component_size |-> 5,
          apply_enhancement |-> TRUE, enhancement_type |-> "moderate"]
    ELSE [closing_size |-> 7, closing_iterations |-> 3, min_component_size |-> 15,
          apply_enhancement |-> TRUE, enhancement_type |-> "aggressive"]

\* GetAdaptiveParameters smoothing every clean map, grainy or not
GetAdaptiveParametersCleanSmooths(noise_metrics) ==
    IF noise_metrics.noise_level = 0
    THEN [closing_size |-> 4, closing_iterations |-> 1, min_component_size |-> 0,
          apply_enhancement |-> TRUE, enhancement_type |-> "boundary_smoothing"]
    ELSE IF noise_metrics.noise_level = 1
    THEN [closing_size |-> 3, closing_iterations |-> 1, min_component_size |-> 5,
          apply_enhancement |-> TRUE, enhancement_type |-> "moderate"]
    ELSE [closing_size |-> 7, closing_iterations |-> 3, min_component_size |-> 15,
          apply_enhancement |-> TRUE, enhancement_type |-> "aggressive"]

\* GetAdaptiveParameters with a clean map without grain falling through to the
\* moderate parameters
GetAdaptiveParametersNoSkip(noise_metrics) ==
    IF noise_metrics.noise_level = 0 /\ noise_metrics.has_grainy_boundaries
    THEN [closing_size |-> 4, closing_iterations |-> 1, min_component_size |-> 0,
          apply_enhancement |-> TRUE, enhancement_type |-> "boundary_smoothing"]
    ELSE IF noise_metrics.noise_level <= 1
    THEN [closing_size |-> 3, closing_iterations |-> 1, min_component_size |-> 5,
          apply_enhancement |-> TRUE, enhancement_type |-> "moderate"]
    ELSE [closing_size |-> 7, closing_iterations |-> 3, min_component_size |-> 15,
          apply_enhancement |-> TRUE, enhancement_type |-> "aggressive"]

GetAdaptiveParameters(noise_metrics) ==
    IF noise_metrics.noise_level = 0
    THEN IF noise_metrics.has_grainy_boundaries
         THEN [closing_size |-> 4, closing_iterations |-> 1, min_component_size |-> 0,
               apply_enhancement |-> TRUE, enhancement_type |-> "boundary_smoothing"]
         ELSE [closing_size |-> 0, closing_iterations |-> 0, min_component_size |-> 3,
               apply_enhancement |-> FALSE, enhancement_type |-> "none"]
    ELSE IF noise_metrics.noise_level = 1
    THEN [closing_size |-> 3, closing_iterations |-> 1, min_component_size |-> 5,
          apply_enhancement |-> TRUE, enhancement_type |-> "moderate"]
    ELSE [closing_size |-> 7, closing_iterations |-> 3, min_component_size |-> 15,
          apply_enhancement |-> TRUE, enhancement_type |-> "aggressive"]

\* (enhanced < 128), as the set of cells that hold 1
OccupiedMask(img) ==
    {c \in {d : d \in GridCells(img)} : img[c[1]][c[2]] < OccupiedBelow}

\* the index mode="reflect" reads for index i of an axis of length n
Reflect(i, n) ==
    LET m == i % (2 * n) IN IF m < n THEN m ELSE 2 * n - 1 - m

\* the offsets one axis of a filter of the given size reads (origin 0)
WindowSpan(size) == (0 - (size \div 2))..(size - 1 - (size \div 2))

\* the offsets a filter of the given size reads around a cell (origin 0)
WindowOffsets(size) == WindowSpan(size) \X WindowSpan(size)

\* ndimage.median_filter(img, size=size): the element of rank size*size // 2 of
\* the window, the grid extended by reflection
MedianFilter(img, size) ==
    LET h == GridHeight(img)
        w == GridWidth(img)
        window == WindowOffsets(size)
        rank == (size * size) \div 2
        At(c, o) == img[Reflect(c[1] + o[1], h)][Reflect(c[2] + o[2], w)]
        Median(c) ==
            CHOOSE v \in {At(c, o) : o \in window} :
                /\ Cardinality({o \in window : At(c, o) < v}) <= rank
                /\ Cardinality({o \in window : At(c, o) <= v}) > rank
    IN  [y \in 0..h-1 |-> [x \in 0..w-1 |-> Median(<<y, x>>)]]

\* max(self.closing_size, 3)
PadSize(size) == Max(size, 3)

InBox(c, lo_y, hi_y, lo_x, hi_x) ==
    lo_y <= c[1] /\ c[1] <= hi_y /\ lo_x <= c[2] /\ c[2] <= hi_x

\* one binary_dilation pass with np.ones((size, size)) inside the padded array:
\* a cell is set when a set cell lies under the reflected, re-centred structure.
\* The full square is applied as its row span along x, then along y.
BinaryDilation(mask, size, h, w, pad) ==
    LET span == WindowSpan(size)
        rows == {q \in {<<p[1], p[2] + o>> : p \in mask, o \in span} :
                    InBox(q, 0 - pad, h - 1 + pad, 0 - pad, w - 1 + pad)}
    IN  {q \in {<<p[1] + o, p[2]>> : p \in rows, o \in span} :
            InBox(q, 0 - pad, h - 1 + pad, 0 - pad, w - 1 + pad)}

\* one binary_erosion pass with np.ones((size, size)), border_value 0: a cell
\* stays when every cell under the structure is set (the centre is one of them)
BinaryErosion(mask, size) ==
    LET span == WindowSpan(size)
        rows == {p \in mask : \A o \in span : <<p[1], p[2] + o>> \in mask}
    IN  {p \in rows : \A o \in span : <<p[1] + o, p[2]>> \in rows}

RECURSIVE Dilations(_, _, _, _, _, _)
Dilations(mask, size, n, h, w, pad) ==
    IF n = 0 THEN mask
    ELSE Dilations(BinaryDilation(mask, size, h, w, pad), size, n - 1, h, w, pad)

RECURSIVE Erosions(_, _, _)
Erosions(mask, size, n) ==
    IF n = 0 THEN mask ELSE Erosions(BinaryErosion(mask, size), size, n - 1)

\* ndimage.binary_closing(padded_mask, structure=kernel, iterations=iterations)
BinaryClosing(mask, size, iterations, h, w, pad) ==
    Erosions(Dilations(mask, size, iterations, h, w, pad), size, iterations)

\* np.pad by pad_size, binary_closing, crop [pad_size:-pad_size, pad_size:-pad_size]
PadCloseCrop(mask, h, w, size, iterations) ==
    LET pad_size == PadSize(size)
        closed_padded == BinaryClosing(mask, size, iterations, h, w, pad_size)
    IN  {c \in closed_padded : InBox(c, 0, h - 1, 0, w - 1)}

RemoveSmallComponents(binary_map, min_size) ==
    UNION {c \in Label(binary_map) : Cardinality(c) >= min_size}

\* Render writing free cells as white
RenderFreeAsWhite(cleaned, h, w) ==
    [y \in 0..h-1 |-> [x \in 0..w-1 |-> IF <<y, x>> \in cleaned THEN 0 ELSE MaxGray]]

\* np.where(cleaned, 0, 254)
Render(cleaned, h, w) ==
    [y \in 0..h-1 |-> [x \in 0..w-1 |-> IF <<y, x>> \in cleaned THEN 0 ELSE FreeValue]]

\* the boundary_smoothing branch
SmoothBoundaries(img, size, iterations, min_size) ==
    LET h == GridHeight(img)
        w == GridWidth(img)
        smoothed == PadCloseCrop(OccupiedMask(img), h, w, size, iterations)
        cleaned == IF min_size > 0 THEN RemoveSmallComponents(smoothed, min_size)
                   ELSE smoothed
    IN  Render(cleaned, h, w)

\* the standard branch
EnhanceStandard(img, size, iterations, median, min_size) ==
    LET h == GridHeight(img)
        w == GridWidth(img)
        filtered == MedianFilter(img, median)
        closed == PadCloseCrop(OccupiedMask(filtered), h, w, size, iterations)
        cleaned == RemoveSmallComponents(closed, min_size)
    IN  Render(cleaned, h, w)

\* EnhancePgm returning the input at once when adaptive is off
EnhancePgmSkipsWhenNotAdaptive(img, adapt, self) ==
    LET params == GetAdaptiveParameters(AnalyzeMapNoise(img))
    IN  IF ~adapt \/ ~params.apply_enhancement
        THEN [enhanced |-> img, was_enhanced |-> FALSE, self |-> self]
        ELSE LET updated == [self EXCEPT
                                 !.closing_size = params.closing_size,
                                 !.closing_iterations = params.closing_iterations,
                                 !.min_component_size = params.min_component_size]
             IN  [enhanced |->
                      IF params.enhancement_type = "boundary_smoothing"
                      THEN SmoothBoundaries(img, updated.closing_size,
                               updated.closing_iterations, updated.min_component_size)
                      ELSE EnhanceStandard(img, updated.closing_size,
                               updated.closing_iterations, updated.median_size,
                               updated.min_component_size),
                  was_enhanced |-> TRUE, self |-> updated]

\* enhance_pgm(img, adaptive=adapt) on the enhancer with fields self: the grid
\* and flag it returns and the enhancer's fields afterwards
EnhancePgm(img, adapt, self) ==
    LET params == IF adapt THEN GetAdaptiveParameters(AnalyzeMapNoise(img))
                  ELSE [apply_enhancement |-> TRUE, enhancement_type |-> "standard"]
    IN  IF adapt /\ ~params.apply_enhancement
        THEN [enhanced |-> img, was_enhanced |-> FALSE, self |-> self]
        ELSE LET updated == IF adapt
                            THEN [self EXCEPT
                                     !.closing_size = params.closing_size,
                                     !.closing_iterations = params.closing_iterations,
                                     !.min_component_size = params.min_component_size]
                            ELSE self
             IN  [enhanced |->
                      IF params.enhancement_type = "boundary_smoothing"
                      THEN SmoothBoundaries(img, updated.closing_size,
                               updated.closing_iterations, updated.min_component_size)
                      ELSE EnhanceStandard(img, updated.closing_size,
                               updated.closing_iterations, updated.median_size,
                               updated.min_component_size),
                  was_enhanced |-> TRUE, self |-> updated]

\* InputAfterEnhance with the result written into the caller's array
InputAfterEnhanceInPlace(img, adapt, self) == EnhancePgm(img, adapt, self).enhanced

\* the caller's grid after enhance_pgm returns: every step works on
\* image_data.copy() or on a new array, the argument keeps its cells
InputAfterEnhance(img, adapt, self) == img

\* ================================================= PGM files and MapMetadata
\* row after row, the cells of a grid: enhanced_data.tobytes()
Flatten(grid) ==
    LET w == GridWidth(grid)
    IN  [i \in 1..GridHeight(grid) * w |-> grid[(i - 1) \div w][(i - 1) % w]]

\* a P5 file holding a grid: the header "P5", width, height, 255 and the bytes
PgmFile(grid) ==
    [exists |-> TRUE, parsable |-> TRUE, width |-> GridWidth(grid),
     height |-> GridHeight(grid), bytes |-> Flatten(grid)]

\* a file that exists and that PGMParser cannot parse (a wrong magic number, a
\* truncated header or body)
CorruptFile ==
    [exists |-> TRUE, parsable |-> FALSE, width |-> 0, height |-> 0, bytes |-> <<>>]

\* a P5 file whose header gives a height or a width of 0 and that has no
\* bytes after it: reshape((height, width)) of nothing succeeds
ZeroAreaFile(h, w) ==
    [exists |-> TRUE, parsable |-> TRUE, width |-> w, height |-> h, bytes |-> <<>>]

\* EmptyArray with max() of an array without elements returning a value
EmptyArrayTolerated(grid) == FALSE

\* image_data.max() raises ValueError on an array without elements
EmptyArray(grid) == GridCells(grid) = {}

\* no file at that path
NoFile ==
    [exists |-> FALSE, parsable |-> FALSE, width |-> 0, height |-> 0, bytes |-> <<>>]

\* PGMParser(path) raises: open fails or _parse raises
ParseRaises(file) == ~file.exists \/ ~file.parsable

\* PGMParser(path).get_image_data(): the bytes reshaped to (height, width)
ParsedImage(file) ==
    [y \in 0..file.height - 1 |-> [x \in 0..file.width - 1 |->
        file.bytes[y * file.width + x + 1]]]

\* MapMetadata.negate: negate: 0 of the YAML file is overridden to 1 when fewer
\* than half of the cells are darker than 128; a file that cannot be read leaves
\* the YAML value
MetadataNegate(file, user) ==
    IF ParseRaises(file) THEN user
    ELSE LET img == ParsedImage(file)
             dark_pixels == Cardinality({c \in GridCells(img) :
                                            img[c[1]][c[2]] < OccupiedBelow})
             total_pixels == file.height * file.width
         IN  IF user = 0 /\ 2 * dark_pixels < total_pixels THEN 1 ELSE user

\* ====================================================== PGMToSDFConverter
\* HandlerCatches letting every failure but one of the enhancement itself pass
HandlerCatchesEnhanceOnly(step) == step = "enhance"

\* except Exception around the enhancement block: whichever step raised (the
\* read, the enhancement, the save), the handler takes it
HandlerCatches(step) == step \in {"read", "enhance", "save"}

\* the try block of convert for the image file, the step told to raise, and the
\* fresh enhancer self: the step that raised ("none" when none did), the locals
\* assigned until then, the enhancer afterwards and the file saved
EnhancementBlock(file, raising, self) ==
    LET skipped == [raised |-> "read", original_data |-> NoGrid, enhanced_data |-> NoGrid,
                    was_enhanced |-> FALSE, self |-> self, saved |-> NoFile]
        Enhanced(data, result) ==
            LET returned == [raised |-> "none",
                             original_data |-> InputAfterEnhance(data, TRUE, self),
                             enhanced_data |-> result.enhanced,
                             was_enhanced |-> result.was_enhanced,
                             self |-> result.self,
                             saved |-> NoFile]
            IN  IF ~result.was_enhanced THEN returned
                ELSE IF raising = "save"
                     THEN [returned EXCEPT !.raised = "save"]
                     ELSE [returned EXCEPT !.saved = PgmFile(result.enhanced)]
        Read(data) ==
            IF raising = "enhance" \/ EmptyArray(data)
            THEN [skipped EXCEPT !.raised = "enhance", !.original_data = data]
            ELSE Only({Enhanced(data, result) : result \in {EnhancePgm(data, TRUE, self)}})
    IN  IF ParseRaises(file) THEN skipped
        ELSE Only({Read(data) : data \in {ParsedImage(file)}})

\* the walls convert hands to SDFGenerator.generate: the list extract_walls
\* returned; min_wall_size and min_wall_length are not read
WallsPassedOn(ws, min_size, min_length) == ws

\* ================================================================== inputs
Dims == {d \in (1..MaxCells) \X (1..MaxCells) : d[1] * d[2] <= MaxCells}

\* the intensities of a two-level map: black and white
BinaryLevels == {0, MaxGray}

\* intensities around the 0/1 and the mid-grey boundaries
GrayLevels == {0, 1, 127, 128, 254, MaxGray}

\* thresholds in units of 1/510: 0, 1/255 and 0.5 with their neighbours, the
\* default 0.65 (between 165/255 and 166/255), 254/255 and 1.0 with theirs
Thresholds == {0, 1, 2, 254, 255, 256, 331, 508, 509, ProbScale}

\* the default occupied_thresh = 0.65
DefaultThresh == 331

\* the default resolution = 0.05 m per cell, in centimetres
DefaultResolution == 5
\* the default min_wall_size = 1 cell
DefaultMinWallSize == 1
\* the default min_wall_length = 0.5 m, in centimetres
DefaultMinWallLength == 50

Grids(h, w, levels) == [0..h-1 -> [0..w-1 -> levels]]

Extents == {e \in (0..MaxExt) \X (0..MaxExt) : e[1] <= e[2]}

\* the runs _aggregate_horizontal and _aggregate_vertical can build
RawSegments ==
    {HorizontalSegment(p, e[1], e[2]) : p \in 0..MaxPos, e \in Extents} \cup
    {VerticalSegment(p, e[1], e[2]) : p \in 0..MaxPos, e \in Extents}

\* the runs of one extent, of either orientation
SegmentsOfExtent(e) ==
    {HorizontalSegment(p, e[1], e[2]) : p \in 0..MaxPos} \cup
    {VerticalSegment(p, e[1], e[2]) : p \in 0..MaxPos}

\* short sequences of arbitrary runs and longer sequences of runs of one extent
SegmentSeqs ==
    UNION {[1..n -> RawSegments] : n \in 0..MaxSegs} \cup
    UNION {[1..n -> SegmentsOfExtent(e)] : n \in 0..MaxStack, e \in Extents}

\* the default merge_tolerance = 0.05 m, in centimetres
DefaultTolerance == 5
\* merge tolerances: none and the default
Tolerances == {0, DefaultTolerance}

\* ---------------------------------------------------------- enhancer inputs
\* the grids of at most MaxEnhCells cells over black and white
SmallMaps == UNION {Grids(d[1], d[2], BinaryLevels) :
                       d \in {e \in Dims : e[1] * e[2] <= MaxEnhCells}}

\* one-row grey grids of at most two cells
GrayRows == Grids(1, 1, GrayLevels) \cup Grids(1, 2, GrayLevels)

\* a black block with at most MaxHoles white cells
BlockShape == <<4, 6>>
BlockCells == (0..BlockShape[1] - 1) \X (0..BlockShape[2] - 1)
RECURSIVE HolesUpTo(_)
\* the sets of at most n cells of the block
HolesUpTo(n) ==
    IF n = 0 THEN {{}}
    ELSE LET fewer == HolesUpTo(n - 1)
         IN  fewer \cup {hs \cup {c} : hs \in fewer, c \in BlockCells}
HoleSets == HolesUpTo(MaxHoles)
BlockMap(holes) ==
    [y \in 0..BlockShape[1] - 1 |-> [x \in 0..BlockShape[2] - 1 |->
        IF <<y, x>> \in holes THEN MaxGray ELSE 0]]
BlockMaps == {BlockMap(hs) : hs \in HoleSets}

\* one row: a black run of the given length, then specks single black cells,
\* each after one white cell
LongRuns == {20, 31, 43, 101}
StripeRow(run, specks) ==
    [y \in {0} |-> [x \in 0..run + 2 * specks - 1 |->
        IF x < run \/ (x - run) % 2 = 1 THEN 0 ELSE MaxGray]]
StripeRows == {StripeRow(r, k) : r \in LongRuns, k \in 0..MaxSpecks}

EnhancerInputs == SmallMaps \cup GrayRows \cup BlockMaps \cup StripeRows

\* ---------------------------------------------------------- convert inputs
\* the two-level grids of at most MaxConvCells cells, the black block whole and
\* with one white cell, a moderately noisy row and a grainy row
ConvertMaps ==
    UNION {Grids(d[1], d[2], BinaryLevels) :
              d \in {e \in Dims : e[1] * e[2] <= MaxConvCells}}
    \cup {BlockMap({})} \cup {BlockMap({c}) : c \in BlockCells}
    \cup {StripeRow(43, 7), StripeRow(101, 0)}

\* the steps that may raise for a reason outside the image: the enhancement,
\* the save of the enhanced image, the save of the SDF file
Faults == {"none", "enhance", "save", "output"}

\* the shapes of the images without a cell
ZeroAreaShapes == {<<0, 0>>, <<0, 2>>, <<2, 0>>}

\* the arguments and faults of a conversion: every fault with and without
\* keep_cleaned_pgm, and without a fault either merging and either YAML negate
ConvertConfigs ==
    {[keep_cleaned_pgm |-> k, enable_merging |-> TRUE, user_negate |-> 0, fault |-> f] :
        k \in BOOLEAN, f \in Faults}
    \cup {[keep_cleaned_pgm |-> FALSE, enable_merging |-> m, user_negate |-> n,
            fault |-> "none"] : m \in BOOLEAN, n \in {0, 1}}

\* ------------------------------------------------------------ noise inputs
\* the totals of occupied cells at which 0.14, 0.141 and 0.10 are exact ratios
ExactTotals == {50, 100, 1000}
NoiseTotals == (1..MaxTotal) \cup ExactTotals
\* component counts: the small ones and the ones at the fragmentation boundary
NoiseCounts(total) ==
    {n \in 1..total : n <= MaxComponents \/ 100 * n \in {5 * total, 5 * total + 100}}

\* ------------------------------------------------------- parts not in use
\* the resolution MapMetadata defaults to, and a map whose origin is the world's
DefaultGeometry ==
    /\ resolution = DefaultResolution
    /\ origin = <<0, 0>>

IdleExtractor ==
    /\ image_data = NoGrid
    /\ height = 0
    /\ width = 0
    /\ negate = 0
    /\ occupied_thresh = DefaultThresh
    /\ enable_merging = TRUE
    /\ DefaultGeometry

InitExtractorResults ==
    /\ occupied_grid = NoGrid
    /\ grid_for_vertical = NoGrid
    /\ h_segments = <<>>
    /\ v_segments = <<>>
    /\ all_segments = <<>>
    /\ walls = <<>>

InitMerger ==
    /\ segments = <<>>
    /\ merged = <<>>
    /\ remerged = <<>>
    /\ merge_tolerance = DefaultTolerance

\* PGMEnhancer(): the defaults of the constructor
InitEnhancer ==
    /\ closing_size = 3
    /\ closing_iterations = 1
    /\ median_size = 3
    /\ min_component_size = 5

IdleEnhancer ==
    /\ InitEnhancer
    /\ original_data = NoGrid
    /\ adaptive = FALSE
    /\ enhanced_data = NoGrid
    /\ was_enhanced = FALSE

IdleNoise ==
    /\ small_component_pixels = 0
    /\ total_occupied = 0
    /\ num_components = 0
    /\ noise_level = 0
    /\ has_grainy_boundaries = FALSE
    /\ adaptive_params = NoParams

IdleWorld ==
    /\ pixel_coords = <<0, 0>>
    /\ world_coords = <<0, 0>>

\* no conversion under way: the defaults of convert's arguments, nothing on disk
IdleConvert ==
    /\ pgm_file = NoFile
    /\ user_negate = 0
    /\ keep_cleaned_pgm = FALSE
    /\ min_wall_size = DefaultMinWallSize
    /\ min_wall_length = DefaultMinWallLength
    /\ fault = "none"
    /\ pgm_path_to_use = "original"
    /\ enhanced_pgm_path = "none"
    /\ enhanced_file = NoFile
    /\ sdf_walls = <<>>
    /\ output_file = "absent"
    /\ raised = "none"
    /\ exit_code = NoExit

\* the parts a specification of one component leaves alone
IdleRest ==
    /\ IdleWorld
    /\ IdleConvert

\* =========================================== WallAggregationExtractor: state
\* a two-level map under the default threshold, either negate and either merging
InitBinaryMap ==
    /\ \E d \in Dims :
          /\ height = d[1]
          /\ width = d[2]
          /\ image_data \in Grids(d[1], d[2], BinaryLevels)
    /\ negate \in {0, 1}
    /\ occupied_thresh = DefaultThresh
    /\ enable_merging \in BOOLEAN

\* a one-row grey map of at most two cells under every threshold
InitGrayMap ==
    /\ height = 1
    /\ width \in {1, 2}
    /\ image_data \in Grids(1, width, GrayLevels)
    /\ negate \in {0, 1}
    /\ occupied_thresh \in Thresholds
    /\ enable_merging = TRUE

\* a map every cell of which is occupied: white under negate = 0, black under
\* negate = 1
InitFullMap ==
    /\ height \in 1..MaxFull
    /\ width \in 1..MaxFull
    /\ negate \in {0, 1}
    /\ image_data = [y \in 0..height-1 |-> [x \in 0..width-1 |->
                         IF negate = 0 THEN MaxGray ELSE 0]]
    /\ occupied_thresh = DefaultThresh
    /\ enable_merging \in BOOLEAN

InitExtract ==
    /\ pc = "init"
    /\ InitBinaryMap \/ InitGrayMap \/ InitFullMap
    /\ DefaultGeometry
    /\ InitExtractorResults
    /\ InitMerger
    /\ IdleEnhancer
    /\ IdleNoise
    /\ IdleRest

\* the body of extract_walls: the locals and the returned list afterwards
RunExtractWalls ==
    /\ \E grid \in {GetOccupiedGrid(image_data, height, width, negate, occupied_thresh)} :
       \E hs \in {AggregateHorizontal(grid, height, width)} :
       \E vs \in {AggregateVertical(grid, height, width, hs)} :
       \E result \in {IF enable_merging THEN MergeSegments(hs \o vs) ELSE hs \o vs} :
       \E dicts \in {IF enable_merging THEN SegmentsAfterMerge(hs \o vs) ELSE hs \o vs} :
           /\ occupied_grid' = GridAfterPass2(grid, height, width, hs)
           /\ grid_for_vertical' = GridForVertical(grid, height, width, hs)
           /\ h_segments' = SubSeq(dicts, 1, Len(hs))
           /\ v_segments' = SubSeq(dicts, Len(hs) + 1, Len(dicts))
           /\ all_segments' = result
           /\ walls' = SegmentsToWalls(result, origin, resolution, height)
    /\ UNCHANGED <<image_data, height, width, negate, occupied_thresh, enable_merging,
                   resolution, origin>>

\* walls = extractor.extract_walls()
ExtractWalls ==
    /\ pc = "init"
    /\ RunExtractWalls
    /\ pc' = "extracted"
    /\ UNCHANGED <<mergerVars, enhancerVars, noiseVars, worldVars, convertVars>>

NextExtract == ExtractWalls

SpecExtract == InitExtract /\ [][NextExtract]_vars

\* ====================================================== SegmentMerger: state
InitMerge ==
    /\ pc = "init"
    /\ segments \in SegmentSeqs
    /\ merged = <<>>
    /\ remerged = <<>>
    /\ merge_tolerance \in Tolerances
    /\ IdleExtractor
    /\ InitExtractorResults
    /\ IdleEnhancer
    /\ IdleNoise
    /\ IdleRest

\* merged = merger.merge_segments(segments)
Merge ==
    /\ pc = "init"
    /\ merged' = MergeSegmentsOf(SegmentMerger(merge_tolerance), segments)
    /\ segments' = SegmentsAfterMerge(segments)
    /\ pc' = "merged"
    /\ UNCHANGED <<remerged, merge_tolerance>>
    /\ UNCHANGED <<extractorVars, enhancerVars, noiseVars, worldVars, convertVars>>

\* remerged = merger.merge_segments(merged): the output handed back as input
MergeAgain ==
    /\ pc = "merged"
    /\ remerged' = MergeSegmentsOf(SegmentMerger(merge_tolerance), merged)
    /\ merged' = SegmentsAfterMerge(merged)
    /\ pc' = "remerged"
    /\ UNCHANGED <<segments, merge_tolerance>>
    /\ UNCHANGED <<extractorVars, enhancerVars, noiseVars, worldVars, convertVars>>

NextMerge == Merge \/ MergeAgain

SpecMerge == InitMerge /\ [][NextMerge]_vars

\* ======================================================== PGMEnhancer: state
InitEnhance ==
    /\ pc = "init"
    /\ InitEnhancer
    /\ original_data \in EnhancerInputs
    /\ adaptive \in BOOLEAN
    /\ enhanced_data = NoGrid
    /\ was_enhanced = FALSE
    /\ IdleExtractor
    /\ InitExtractorResults
    /\ InitMerger
    /\ IdleNoise
    /\ IdleRest

\* the enhancer's fields, as enhance_pgm reads and writes them
EnhancerFields ==
    [closing_size |-> closing_size, closing_iterations |-> closing_iterations,
     median_size |-> median_size, min_component_size |-> min_component_size]

\* enhanced_data, was_enhanced = enhancer.enhance_pgm(original_data, adaptive=adaptive)
Enhance ==
    /\ pc = "init"
    /\ \E result \in {EnhancePgm(original_data, adaptive, EnhancerFields)} :
           /\ enhanced_data' = result.enhanced
           /\ was_enhanced' = result.was_enhanced
           /\ closing_size' = result.self.closing_size
           /\ closing_iterations' = result.self.closing_iterations
           /\ median_size' = result.self.median_size
           /\ min_component_size' = result.self.min_component_size
    /\ original_data' = InputAfterEnhance(original_data, adaptive, EnhancerFields)
    /\ pc' = "enhanced"
    /\ UNCHANGED adaptive
    /\ UNCHANGED <<extractorVars, mergerVars, noiseVars, worldVars, convertVars>>

NextEnhance == Enhance

SpecEnhance == InitEnhance /\ [][NextEnhance]_vars

\* ================================================== analyze_map_noise: state
\* the dictionary analyze_map_noise returns, with the keys the model follows
NoiseMetrics ==
    [small_component_pixels |-> small_component_pixels,
     total_occupied |-> total_occupied,
     num_components |-> num_components,
     has_grainy_boundaries |-> has_grainy_boundaries,
     noise_level |-> noise_level]

\* the counts analyze_map_noise reaches its classification with: at least one
\* occupied cell and one component, no more small cells than cells
InitNoise ==
    /\ pc = "init"
    /\ total_occupied \in NoiseTotals
    /\ small_component_pixels \in 0..total_occupied
    /\ num_components \in NoiseCounts(total_occupied)
    /\ noise_level = 0
    /\ has_grainy_boundaries \in BOOLEAN
    /\ adaptive_params = NoParams
    /\ IdleExtractor
    /\ InitExtractorResults
    /\ InitMerger
    /\ IdleEnhancer
    /\ IdleRest

\* the classification at the end of analyze_map_noise
ClassifyNoise ==
    /\ pc = "init"
    /\ noise_level' = NoiseLevel(small_component_pixels, total_occupied, num_components)
    /\ pc' = "classified"
    /\ UNCHANGED <<small_component_pixels, total_occupied, num_components,
                   has_grainy_boundaries, adaptive_params>>
    /\ UNCHANGED <<extractorVars, mergerVars, enhancerVars, worldVars, convertVars>>

\* adaptive_params = self.get_adaptive_parameters(noise_metrics)
SelectParameters ==
    /\ pc = "classified"
    /\ adaptive_params' = GetAdaptiveParameters(NoiseMetrics)
    /\ pc' = "selected"
    /\ UNCHANGED <<small_component_pixels, total_occupied, num_components, noise_level,
                   has_grainy_boundaries>>
    /\ UNCHANGED <<extractorVars, mergerVars, enhancerVars, worldVars, convertVars>>

NextNoise ==
    \/ ClassifyNoise
    \/ SelectParameters

SpecNoise == InitNoise /\ [][NextNoise]_vars

\* ================================================= PGMToSDFConverter: state
\* convert(yaml_path) with the default arguments but keep_cleaned_pgm and
\* enable_merging, on an image file that exists
InitConvert ==
    /\ pc = "init"
    /\ pgm_file \in {PgmFile(g) : g \in ConvertMaps} \cup {CorruptFile}
                    \cup {ZeroAreaFile(d[1], d[2]) : d \in ZeroAreaShapes}
    /\ \E config \in ConvertConfigs :
          /\ user_negate = config.user_negate
          /\ keep_cleaned_pgm = config.keep_cleaned_pgm
          /\ fault = config.fault
          /\ enable_merging = config.enable_merging
    /\ min_wall_size = DefaultMinWallSize
    /\ min_wall_length = DefaultMinWallLength
    /\ pgm_path_to_use = "original"
    /\ enhanced_pgm_path = "none"
    /\ enhanced_file = NoFile
    /\ sdf_walls = <<>>
    /\ output_file = "absent"
    /\ raised = "none"
    /\ exit_code = NoExit
    /\ image_data = NoGrid
    /\ height = 0
    /\ width = 0
    /\ negate = 0
    /\ occupied_thresh = DefaultThresh
    /\ DefaultGeometry
    /\ InitExtractorResults
    /\ InitMerger
    /\ InitEnhancer
    /\ original_data = NoGrid
    /\ adaptive = TRUE
    /\ enhanced_data = NoGrid
    /\ was_enhanced = FALSE
    /\ IdleNoise
    /\ IdleWorld

\* self.metadata = MapMetadata(yaml_path); pgm_path_to_use = metadata.image_path
LoadMetadata ==
    /\ pc = "init"
    /\ negate' = MetadataNegate(pgm_file, user_negate)
    /\ pgm_path_to_use' = "original"
    /\ pc' = "metadata"
    /\ UNCHANGED <<image_data, height, width, occupied_thresh, enable_merging, resolution,
                   origin, occupied_grid, grid_for_vertical, h_segments, v_segments,
                   all_segments, walls>>
    /\ UNCHANGED <<convertArgs, enhanced_pgm_path, enhanced_file, sdf_walls, output_file,
                   raised, exit_code>>
    /\ UNCHANGED <<mergerVars, enhancerVars, noiseVars, worldVars>>

\* the try/except of convert: read, enhance, save, or fall back
Enhancement ==
    /\ pc = "metadata"
    /\ \E block \in {EnhancementBlock(pgm_file, fault, EnhancerFields)} :
           /\ original_data' = block.original_data
           /\ enhanced_data' = block.enhanced_data
           /\ was_enhanced' = block.was_enhanced
           /\ closing_size' = block.self.closing_size
           /\ closing_iterations' = block.self.closing_iterations
           /\ median_size' = block.self.median_size
           /\ min_component_size' = block.self.min_component_size
           /\ enhanced_file' = block.saved
           /\ enhanced_pgm_path' =
                  IF ~block.saved.exists THEN "none"
                  ELSE IF keep_cleaned_pgm THEN "beside_original" ELSE "temp"
           /\ pgm_path_to_use' = IF block.saved.exists THEN "enhanced" ELSE "original"
           /\ IF block.raised = "none" \/ HandlerCatches(block.raised)
              THEN pc' = "enhancement_done" /\ raised' = "none"
              ELSE pc' = "failed" /\ raised' = "enhancement"
    /\ UNCHANGED <<convertArgs, sdf_walls, output_file, exit_code, adaptive>>
    /\ UNCHANGED <<extractorVars, mergerVars, noiseVars, worldVars>>

\* self.pgm_parser = PGMParser(pgm_path_to_use) and the extractor built on it
ParsePgm ==
    /\ pc = "enhancement_done"
    /\ LET file == IF pgm_path_to_use = "enhanced" THEN enhanced_file ELSE pgm_file
       IN  IF ParseRaises(file)
           THEN /\ pc' = "failed"
                /\ raised' = "parse"
                /\ UNCHANGED <<image_data, height, width>>
           ELSE /\ pc' = "parsed"
                /\ raised' = "none"
                /\ image_data' = ParsedImage(file)
                /\ height' = file.height
                /\ width' = file.width
    /\ UNCHANGED <<negate, occupied_thresh, enable_merging, resolution, origin,
                   occupied_grid, grid_for_vertical, h_segments, v_segments,
                   all_segments, walls>>
    /\ UNCHANGED <<convertArgs, pgm_path_to_use, enhanced_pgm_path, enhanced_file,
                   sdf_walls, output_file, exit_code>>
    /\ UNCHANGED <<mergerVars, enhancerVars, noiseVars, worldVars>>

\* walls = self.wall_extractor.extract_walls(); _get_occupied_grid raises on an
\* image without a cell
ConvertExtractWalls ==
    /\ pc = "parsed"
    /\ IF EmptyArray(image_data)
       THEN /\ pc' = "failed"
            /\ raised' = "extract_walls"
            /\ UNCHANGED extractorVars
       ELSE /\ RunExtractWalls
            /\ pc' = "extracted"
            /\ raised' = "none"
    /\ UNCHANGED <<convertArgs, pgm_path_to_use, enhanced_pgm_path, enhanced_file,
                   sdf_walls, output_file, exit_code>>
    /\ UNCHANGED <<mergerVars, enhancerVars, noiseVars, worldVars>>

\* sdf_content = self.sdf_generator.generate(walls=walls, ...) and
\* self.sdf_generator.save_to_file(sdf_content, output_path)
GenerateSdf ==
    /\ pc = "extracted"
    /\ sdf_walls' = WallsPassedOn(walls, min_wall_size, min_wall_length)
    /\ IF fault = "output"
       THEN /\ pc' = "failed"
            /\ raised' = "save_to_file"
            /\ UNCHANGED output_file
       ELSE /\ pc' = "generated"
            /\ raised' = "none"
            /\ output_file' = "written"
    /\ UNCHANGED <<convertArgs, pgm_path_to_use, enhanced_pgm_path, enhanced_file,
                   exit_code>>
    /\ UNCHANGED <<extractorVars, mergerVars, enhancerVars, noiseVars, worldVars>>

\* the end of convert: os.remove(enhanced_pgm_path) unless keep_cleaned_pgm
RemoveEnhancedPgm ==
    /\ pc = "generated"
    /\ enhanced_file' = IF enhanced_pgm_path # "none" /\ ~keep_cleaned_pgm
                        THEN NoFile ELSE enhanced_file
    /\ pc' = "done"
    /\ UNCHANGED <<convertArgs, pgm_path_to_use, enhanced_pgm_path, sdf_walls,
                   output_file, raised, exit_code>>
    /\ UNCHANGED <<extractorVars, mergerVars, enhancerVars, noiseVars, worldVars>>

\* main around convert: return 0, or report the exception and return 1
MainReturns ==
    /\ pc \in {"done", "failed"}
    /\ exit_code = NoExit
    /\ exit_code' = IF raised = "none" THEN 0 ELSE 1
    /\ UNCHANGED <<pc, convertArgs, pgm_path_to_use, enhanced_pgm_path, enhanced_file,
                   sdf_walls, output_file, raised>>
    /\ UNCHANGED <<extractorVars, mergerVars, enhancerVars, noiseVars, worldVars>>

NextConvert ==
    \/ LoadMetadata
    \/ Enhancement
    \/ ParsePgm
    \/ ConvertExtractWalls
    \/ GenerateSdf
    \/ RemoveEnhancedPgm
    \/ MainReturns

SpecConvert == InitConvert /\ [][NextConvert]_vars

\* ===================================================== _pixel_to_world: state
\* resolutions of 1 cm and 5 cm per cell; MapMetadata rejects resolution <= 0
Resolutions == {1, DefaultResolution}

\* origins, in centimetres: the world's origin and a point left of and above it
Origins == {<<0, 0>>, <<-1000, 250>>}

\* the doubled pixel coordinates of the cell centres and run centres of a grid
PixelCoords(h, w) == (0..2 * (w - 1)) \X (0..2 * (h - 1))

\* an extractor over a blank grid and a point of that grid
InitWorld ==
    /\ pc = "init"
    /\ \E d \in Dims :
          /\ height = d[1]
          /\ width = d[2]
          /\ image_data = [y \in 0..d[1]-1 |-> [x \in 0..d[2]-1 |-> 0]]
          /\ pixel_coords \in PixelCoords(d[1], d[2])
    /\ negate = 0
    /\ occupied_thresh = DefaultThresh
    /\ enable_merging = TRUE
    /\ resolution \in Resolutions
    /\ origin \in Origins
    /\ world_coords = <<0, 0>>
    /\ InitExtractorResults
    /\ InitMerger
    /\ IdleEnhancer
    /\ IdleNoise
    /\ IdleConvert

\* world_coords = self._pixel_to_world(pixel_coords)
ToWorld ==
    /\ pc = "init"
    /\ world_coords' = PixelToWorld(pixel_coords, origin, resolution, height)
    /\ pc' = "world"
    /\ UNCHANGED <<pixel_coords, extractorVars, mergerVars, enhancerVars, noiseVars,
                   convertVars>>

NextWorld == ToWorld

SpecWorld == InitWorld /\ [][NextWorld]_vars

\* ================================================================== claims
\* the probability the extractor compares with occupied_thresh for cell (y, x)
CellProb(y, x) ==
    OccupancyProb(image_data[y][x], GridMax(image_data, height, width), negate)

Cells == (0..height-1) \X (0..width-1)

aggregated == h_segments \o v_segments

\* C1: after the two aggregation passes the cells covered by the horizontal and
\* vertical segments are exactly the cells of the mask that hold 1.
C1_AggregationCoversExactlyOccupied ==
    pc = "extracted" =>
        Coverage(aggregated) = OccupiedCells(occupied_grid, height, width)

\* a mask with a free cell, a horizontal run longer than one cell and a vertical run
C1_Witness ==
    /\ pc = "extracted"
    /\ \E c \in Cells : occupied_grid[c[1]][c[2]] = 0
    /\ \E i \in DOMAIN h_segments : h_segments[i].length_px > 1
    /\ \E i \in DOMAIN v_segments : v_segments[i].length_px > 1

\* C2: no cell is covered by more than one of the segments of the two passes.
C2_NoCellCoveredTwice ==
    pc = "extracted" =>
        \A i, j \in DOMAIN aggregated :
            i # j => SegCells(aggregated[i]) \cap SegCells(aggregated[j]) = {}

\* C3: merge_segments keeps the set of covered cells.
C3_MergePreservesCoverage ==
    pc \in {"merged", "remerged"} => Coverage(merged) = Coverage(segments)

\* segments of both orientations went in and at least two of them were joined
C3_Witness ==
    /\ pc = "merged"
    /\ Len(merged) < Len(segments)
    /\ \E i, j \in DOMAIN segments : segments[i].type # segments[j].type

\* C4: merging the output of merge_segments again returns the same sequence.
C4_MergeIdempotent ==
    pc = "remerged" => remerged = merged

\* C5: merge_segments never returns more segments than it was given.
C5_MergeNeverIncreasesCount ==
    pc \in {"merged", "remerged"} => Len(merged) <= Len(segments)

\* three segments of one extent of which only two are adjacent: one join, one not
C5_Witness ==
    /\ pc = "merged"
    /\ Len(segments) = 3
    /\ Len(merged) = 2
    /\ \A i, j \in DOMAIN segments :
           /\ segments[i].type = "horizontal"
           /\ segments[i].start_x = segments[j].start_x
           /\ segments[i].end_x = segments[j].end_x

\* C9: with negate = 0 low intensity means occupied (an occupied cell makes every
\* cell at most as bright occupied), with negate = 1 low intensity means free (an
\* occupied cell makes every cell at least as bright occupied).
C9_NegateMeaning ==
    pc = "extracted" =>
        \A c, d \in Cells :
            occupied_grid[c[1]][c[2]] = 1 =>
                /\ (negate = 0 /\ image_data[d[1]][d[2]] <= image_data[c[1]][c[2]])
                       => occupied_grid[d[1]][d[2]] = 1
                /\ (negate = 1 /\ image_data[d[1]][d[2]] >= image_data[c[1]][c[2]])
                       => occupied_grid[d[1]][d[2]] = 1

\* C10: a cell of the mask is 1 exactly when its occupancy probability is
\* strictly greater than occupied_thresh.
C10_OccupiedIffExceeds ==
    pc = "extracted" =>
        \A c \in Cells :
            occupied_grid[c[1]][c[2]] = 1 <=> CellProb(c[1], c[2]) > occupied_thresh

\* the metrics enhance_pgm computes for its input in adaptive mode
noise_metrics == AnalyzeMapNoise(original_data)

\* C6 as stated: with adaptive off enhance_pgm returns its input unchanged and
\* was_enhanced = false.
C6_NotAdaptiveReturnsInput ==
    (pc = "enhanced" /\ ~adaptive) =>
        (enhanced_data = original_data /\ was_enhanced = FALSE)

\* C6 amended: with adaptive off enhance_pgm never skips: it returns
\* was_enhanced = true and a grid of the input's shape re-rendered in the two
\* levels 0 and 254; only an adaptive call returns was_enhanced = false.
C6_NotAdaptiveAlwaysEnhances ==
    pc = "enhanced" =>
        /\ ~adaptive =>
               /\ was_enhanced = TRUE
               /\ GridCells(enhanced_data) = GridCells(original_data)
               /\ \A c \in GridCells(enhanced_data) :
                      enhanced_data[c[1]][c[2]] \in {0, FreeValue}
        /\ was_enhanced = FALSE => adaptive

\* a non-adaptive call on a map with occupied cells whose result differs from it
C6_Witness ==
    /\ pc = "enhanced"
    /\ ~adaptive
    /\ OccupiedMask(original_data) # {}
    /\ enhanced_data # original_data

\* C7: in adaptive mode a grid whose metrics give noise level 0 and no grainy
\* boundaries comes back cell for cell, with was_enhanced = false.
C7_CleanInputUnchanged ==
    (/\ pc = "enhanced"
     /\ adaptive
     /\ noise_metrics.noise_level = 0
     /\ ~noise_metrics.has_grainy_boundaries) =>
        (enhanced_data = original_data /\ was_enhanced = FALSE)

\* an adaptive call on a clean map that has occupied cells and a free cell
C7_Witness ==
    /\ pc = "enhanced"
    /\ adaptive
    /\ noise_metrics.noise_level = 0
    /\ ~noise_metrics.has_grainy_boundaries
    /\ noise_metrics.total_occupied >= SmallComponentLimit
    /\ noise_metrics.small_component_pixels > 0
    /\ enhanced_data = original_data

\* C8: the noise level is 2 exactly when small_component_ratio > 0.14, else 1
\* exactly when small_component_ratio > 0.10 and fragmentation_score > 5.0,
\* else 0; a ratio of exactly 0.14 is not heavy, a ratio of 0.141 is.
C8_NoiseThresholdsStrict ==
    pc = "classified" =>
        LET heavy == 100 * small_component_pixels > 14 * total_occupied
            above_moderate == 100 * small_component_pixels > 10 * total_occupied
            fragmented == IF total_occupied > 100
                          THEN 100 * num_components > 5 * total_occupied
                          ELSE num_components > 5
        IN  /\ noise_level \in {0, 1, 2}
            /\ noise_level = 2 <=> heavy
            /\ noise_level = 1 <=> (~heavy /\ above_moderate /\ fragmented)
            /\ 50 * small_component_pixels = 7 * total_occupied => noise_level # 2
            /\ 1000 * small_component_pixels = 141 * total_occupied => noise_level = 2

\* a ratio of exactly 0.14 with a fragmentation score above 5: level 1
C8_Witness ==
    /\ pc = "classified"
    /\ 50 * small_component_pixels = 7 * total_occupied
    /\ small_component_pixels > 0
    /\ noise_level = 1

\* the (lo, hi) pair merge_segments groups a segment by
CrossExtent(seg) ==
    IF seg.type = "horizontal" THEN <<seg.start_x, seg.end_x>>
    ELSE <<seg.start_y, seg.end_y>>

\* the row of a horizontal segment, the column of a vertical one
Position(seg) == IF seg.type = "horizontal" THEN seg.y ELSE seg.x

\* the rows a merged horizontal segment spans, the columns a merged vertical one spans
Span(seg) ==
    IF seg.type = "horizontal" THEN seg.start_y..seg.end_y ELSE seg.start_x..seg.end_x

C14_FullMaskMergesToOne ==
    (/\ pc = "extracted"
     /\ width >= 2
     /\ \A c \in Cells : occupied_grid[c[1]][c[2]] = 1) =>
        /\ Len(h_segments) = height
        /\ \A i \in 1..height :
               /\ h_segments[i].type = "horizontal"
               /\ h_segments[i].y = i - 1
               /\ h_segments[i].start_x = 0
               /\ h_segments[i].end_x = width - 1
        /\ v_segments = <<>>
        /\ enable_merging =>
               /\ Len(all_segments) = 1
               /\ all_segments[1].type = "horizontal"
               /\ all_segments[1].start_x = 0
               /\ all_segments[1].end_x = width - 1
               /\ all_segments[1].start_y = 0
               /\ all_segments[1].end_y = height - 1

\* the 5x5 mask of the scenario, merged into one segment
C14_Witness ==
    /\ pc = "extracted"
    /\ height = 5
    /\ width = 5
    /\ enable_merging
    /\ \A c \in Cells : occupied_grid[c[1]][c[2]] = 1
    /\ Len(all_segments) = 1

\* the occupied cells with no occupied cell to their left or right
LonelyCells ==
    {c \in Cells :
        /\ occupied_grid[c[1]][c[2]] = 1
        /\ c[2] = 0 \/ occupied_grid[c[1]][c[2] - 1] = 0
        /\ c[2] = width - 1 \/ occupied_grid[c[1]][c[2] + 1] = 0}

\* the occupied cells with no occupied cell above, below, left or right
IsolatedCells ==
    {c \in LonelyCells :
        /\ c[1] = 0 \/ occupied_grid[c[1] - 1][c[2]] = 0
        /\ c[1] = height - 1 \/ occupied_grid[c[1] + 1][c[2]] = 0}

C16_PixelToWorldFlipsRows ==
    pc = "world" =>
        /\ world_coords[1] = 2 * origin[1] + pixel_coords[1] * resolution
        /\ world_coords[2] = 2 * origin[2] + 2 * height * resolution
                                 - pixel_coords[2] * resolution
        /\ \A q \in PixelCoords(height, width) :
               LET q_world == PixelToWorld(q, origin, resolution, height)
               IN  /\ q[2] > pixel_coords[2] => q_world[2] < world_coords[2]
                   /\ q[1] > pixel_coords[1] => q_world[1] > world_coords[1]

\* the centre of a run of two rows, below the top row, with an origin off zero
C16_Witness ==
    /\ pc = "world"
    /\ pixel_coords[2] = 1
    /\ pixel_coords[1] > 0
    /\ height > 2
    /\ origin # <<0, 0>>
    /\ world_coords[2] = 2 * origin[2] + (2 * height - 1) * resolution

\* ------------------------------------------------------------------- C17
\* a step of the enhancement block raised: the read of an unparsable image, the
\* enhancement, or the save of an image that was enhanced
EnhancementRaised ==
    /\ pc \notin {"init", "metadata"}
    /\ \/ ParseRaises(pgm_file)
       \/ EmptyArray(ParsedImage(pgm_file))
       \/ fault = "enhance"
       \/ fault = "save" /\ was_enhanced

\* the stages of convert after self.pgm_parser was built
AfterParse == {"parsed", "extracted", "generated", "done"}

\* the stages of convert after extract_walls returned
AfterExtraction == {"extracted", "generated", "done"}

\* C17 as stated: whichever step of the enhancement block raises, the read of
\* the image included, convert does not fail and goes on with the original image
C17_AnyBlockFailureRecovered ==
    EnhancementRaised =>
        /\ pc # "failed"
        /\ pc \in AfterParse =>
              pgm_path_to_use = "original" /\ image_data = ParsedImage(pgm_file)

\* C17 amended: no exception of the enhancement block ends convert; when the
\* enhancement or the save raises on a parsable image no enhanced file is kept,
\* the original file is the one parsed and the walls are extracted from it; and
\* convert then fails only for what fails it without enhancement: an image file
\* that cannot be parsed, an image without a cell, an SDF file that cannot be
\* written
C17_FailureAfterReadRecovered ==
    /\ raised # "enhancement"
    /\ raised = "parse" => ParseRaises(pgm_file)
    /\ raised = "extract_walls" => EmptyArray(image_data)
    /\ raised = "save_to_file" => fault = "output"
    /\ pc = "failed" <=> raised # "none"
    /\ (EnhancementRaised /\ ~ParseRaises(pgm_file)) =>
          /\ pgm_path_to_use = "original"
          /\ enhanced_pgm_path = "none"
          /\ pc \in AfterParse => image_data = ParsedImage(pgm_file)
          /\ pc \in AfterExtraction =>
                occupied_grid = GetOccupiedGrid(ParsedImage(pgm_file), pgm_file.height,
                                                pgm_file.width, negate, occupied_thresh)

\* the save of an enhanced image raised and convert finished with walls of the
\* original image, which differs from the enhanced one
C17_Witness ==
    /\ pc = "done"
    /\ fault = "save"
    /\ was_enhanced
    /\ enhanced_data # original_data
    /\ image_data = ParsedImage(pgm_file)
    /\ Len(sdf_walls) > 0

\* ------------------------------------------------------------------- C18
\* the longer side of a wall, in centimetres
LongerSide(wall) == Max(wall.width, wall.length)

\* C18: every wall convert passes to the SDF generator is at least min_wall_size
\* cells and at least min_wall_length long on its longer side
C18_ShortWallsFilteredOut ==
    pc \in {"generated", "done"} =>
        \A i \in 1..Len(sdf_walls) :
            /\ LongerSide(sdf_walls[i]) >= min_wall_size * resolution
            /\ LongerSide(sdf_walls[i]) >= min_wall_length

C20_CallKeepsStoredParameters ==
    [][Enhance => EnhancerFields' = EnhancerFields]_vars

\* ------------------------------------------------------------------- C21
\* C21: a grid of at least one cell without an occupied cell is not an error:
\* when the enhancer's occupied mask of the image is empty an adaptive enhance_pgm returns the input
\* with was_enhanced = FALSE, and when the extractor's occupancy grid has no
\* occupied cell both passes, the merged list and the wall list are empty and
\* convert goes on to the end
C21_AllFreeGridYieldsNothing ==
    /\ (pc \notin {"init", "metadata"} /\ ~ParseRaises(pgm_file) /\ fault = "none"
            /\ ~EmptyArray(original_data) /\ NoiseMask(original_data) = {}) =>
          /\ ~was_enhanced
          /\ enhanced_data = original_data
          /\ raised = "none"
    /\ (pc \in AfterExtraction /\ OccupiedCells(occupied_grid, height, width) = {}) =>
          /\ h_segments = <<>>
          /\ v_segments = <<>>
          /\ all_segments = <<>>
          /\ walls = <<>>

\* a finished conversion of an all-free map of several cells
C21_Witness ==
    /\ pc = "done"
    /\ fault = "none"
    /\ height * width >= 2
    /\ NoiseMask(original_data) = {}
    /\ OccupiedCells(occupied_grid, height, width) = {}
    /\ ~was_enhanced
    /\ sdf_walls = <<>>

\* ------------------------------------------------------------------- C22
\* the image file parses to a grid of height 0 or width 0
ZeroAreaImage == ~ParseRaises(pgm_file) /\ pgm_file.height * pgm_file.width = 0

\* C22: a zero-area grid is fatal: extract_walls never returns, convert ends only
\* by the exception of extract_walls, main returns 1, and nothing is written,
\* neither an SDF file nor an enhanced image
C22_ZeroAreaIsFatal ==
    ZeroAreaImage =>
        /\ pc \notin AfterExtraction
        /\ pc = "failed" => raised = "extract_walls"
        /\ exit_code # NoExit => (pc = "failed" /\ exit_code = 1)
        /\ output_file = "absent"
        /\ enhanced_file = NoFile
        /\ sdf_walls = <<>>

\* main has returned 1 for an image of two rows and no column
C22_Witness ==
    /\ ZeroAreaImage
    /\ pgm_file.height = 2
    /\ raised = "extract_walls"
    /\ exit_code = 1
    /\ output_file = "absent"

\* ------------------------------------------------------------------- C23
\* the closing size, the iterations and the minimum component size selected
Selected(size, iterations, min_size) ==
    /\ adaptive_params.closing_size = size
    /\ adaptive_params.closing_iterations = iterations
    /\ adaptive_params.min_component_size = min_size

\* C23: the selected parameters are a function of the noise level and the grain
\* flag alone: level 0 with grain smooths boundaries with 4, 1, 0; level 0
\* without grain applies nothing; level 1 gives 3, 1, 5; level 2 gives 7, 3, 15;
\* at levels 1 and 2 the grain flag changes nothing
C23_ParametersFollowLevelAndGrain ==
    pc = "selected" =>
        /\ (noise_level = 0 /\ has_grainy_boundaries) =>
              /\ Selected(4, 1, 0)
              /\ adaptive_params.apply_enhancement
              /\ adaptive_params.enhancement_type = "boundary_smoothing"
        /\ (noise_level = 0 /\ ~has_grainy_boundaries) =>
              ~adaptive_params.apply_enhancement
        /\ noise_level = 1 => Selected(3, 1, 5)
        /\ noise_level = 2 => Selected(7, 3, 15)
        /\ noise_level # 0 =>
              adaptive_params =
                  GetAdaptiveParameters([NoiseMetrics EXCEPT
                      !.has_grainy_boundaries = ~has_grainy_boundaries])
        /\ \A small \in 0..1, total \in 1..2, num \in 1..2 :
              adaptive_params =
                  GetAdaptiveParameters([NoiseMetrics EXCEPT
                      !.small_component_pixels = small, !.total_occupied = total,
                      !.num_components = num])

\* the parameters of a moderate map with grainy boundaries
C23_Witness ==
    /\ pc = "selected"
    /\ noise_level = 1
    /\ has_grainy_boundaries
    /\ Selected(3, 1, 5)

\* ------------------------------------------------------------------- C24
\* grid[y][x] = 1, with every cell outside the grid free
OccupiedAt(y, x) ==
    y \in 0..height - 1 /\ x \in 0..width - 1 /\ occupied_grid[y][x] = 1

\* C24: Pass 1 returns exactly the maximal runs of occupied cells of each row,
\* rows ascending and columns ascending within a row: each segment starts and
\* ends at an occupied cell with no occupied neighbour beyond it, holds only
\* occupied cells, has length_px = end_x - start_x + 1; segments of one row
\* neither touch nor overlap; and every occupied cell lies in a segment
C24_Pass1ReturnsMaximalRuns ==
    pc = "extracted" =>
        /\ \A i \in DOMAIN h_segments :
              LET seg == h_segments[i]
              IN  /\ seg.type = "horizontal"
                  /\ seg.start_x <= seg.end_x
                  /\ \A x \in seg.start_x..seg.end_x : OccupiedAt(seg.y, x)
                  /\ ~OccupiedAt(seg.y, seg.start_x - 1)
                  /\ ~OccupiedAt(seg.y, seg.end_x + 1)
                  /\ seg.length_px = seg.end_x - seg.start_x + 1
        /\ \A i, j \in DOMAIN h_segments :
              i < j => \/ h_segments[i].y < h_segments[j].y
                       \/ /\ h_segments[i].y = h_segments[j].y
                          /\ h_segments[i].end_x + 1 < h_segments[j].start_x
        /\ \A c \in OccupiedCells(occupied_grid, height, width) :
              \E i \in DOMAIN h_segments :
                  /\ h_segments[i].y = c[1]
                  /\ h_segments[i].start_x <= c[2]
                  /\ c[2] <= h_segments[i].end_x

\* two runs in one row, one of them longer than a cell, and a run in a later row
C24_Witness ==
    /\ pc = "extracted"
    /\ \E i, j, k \in DOMAIN h_segments :
          /\ i < j /\ j < k
          /\ h_segments[i].y = h_segments[j].y
          /\ h_segments[j].y < h_segments[k].y
          /\ h_segments[i].length_px > 1

\* ------------------------------------------------------------------- C25
\* C25: a grid returned with was_enhanced = TRUE has the shape of the input and
\* holds only 0 and 254; 255 does not occur in it
C25_EnhancedGridIsZeroOr254 ==
    (pc = "enhanced" /\ was_enhanced) =>
        /\ GridCells(enhanced_data) = GridCells(original_data)
        /\ \A c \in GridCells(enhanced_data) :
              /\ enhanced_data[c[1]][c[2]] \in {0, 254}
              /\ enhanced_data[c[1]][c[2]] # 255

\* a call on a grid with white cells returned occupied and free cells
C25_Witness ==
    /\ pc = "enhanced"
    /\ was_enhanced
    /\ \E c \in GridCells(original_data) : original_data[c[1]][c[2]] = 255
    /\ \E c \in GridCells(enhanced_data) : enhanced_data[c[1]][c[2]] = 0
    /\ \E c \in GridCells(enhanced_data) : enhanced_data[c[1]][c[2]] = 254

\* ------------------------------------------------------------------- C26
\* the occupied mask enhance_pgm pads and closes: of the input in the
\* boundary_smoothing branch, of the median-filtered input in the standard one
MaskBeforeClosing ==
    IF adaptive /\ GetAdaptiveParameters(noise_metrics).enhancement_type
                       = "boundary_smoothing"
    THEN OccupiedMask(original_data)
    ELSE OccupiedMask(MedianFilter(original_data, median_size))

\* the mask after np.pad, binary_closing and the crop, with the parameters the
\* call used
MaskAfterClosing ==
    PadCloseCrop(MaskBeforeClosing, GridHeight(original_data), GridWidth(original_data),
                 closing_size, closing_iterations)

\* C26: the pad-close-crop step only fills gaps: every cell occupied in the mask
\* before closing is occupied after closing and cropping, the cells of the
\* outermost rows and columns included
C26_ClosingKeepsOccupiedCells ==
    (pc = "enhanced" /\ was_enhanced) => MaskBeforeClosing \subseteq MaskAfterClosing

\* ------------------------------------------------------------------- C27
Has(seg, key) == key \in DOMAIN seg

\* the first and last column a segment spans
SpanX(seg) ==
    IF Has(seg, "start_x") /\ Has(seg, "end_x")
    THEN <<seg["start_x"], seg["end_x"]>> ELSE <<seg["x"], seg["x"]>>

\* the first and last row a segment spans
SpanY(seg) ==
    IF Has(seg, "start_y") /\ Has(seg, "end_y")
    THEN <<seg["start_y"], seg["end_y"]>> ELSE <<seg["y"], seg["y"]>>

\* C27: _segments_to_walls gives one wall per segment in the same order, with
\* angle 0, width (end_x - start_x + 1) * resolution, length
\* (end_y - start_y + 1) * resolution and the centre at the world image of the
\* pixel midpoint, a segment without a span across its run counting as one row
\* or one column; so no wall is narrower or shorter than one cell.  Centres are
\* compared doubled, in half centimetres.
C27_OneWallPerSegment ==
    pc = "extracted" =>
        /\ Len(walls) = Len(all_segments)
        /\ \A i \in DOMAIN all_segments :
              LET seg == all_segments[i]
                  xs == SpanX(seg)
                  ys == SpanY(seg)
              IN  /\ walls[i].angle = 0
                  /\ walls[i].width = (xs[2] - xs[1] + 1) * resolution
                  /\ walls[i].length = (ys[2] - ys[1] + 1) * resolution
                  /\ walls[i].x = 2 * origin[1] + (xs[1] + xs[2]) * resolution
                  /\ walls[i].y = 2 * origin[2]
                                      + (2 * height - (ys[1] + ys[2])) * resolution
                  /\ walls[i].width >= resolution
                  /\ walls[i].length >= resolution

\* walls of a merged horizontal segment of several rows and columns next to
\* the wall of a vertical segment one column wide and several rows long
C27_Witness ==
    /\ pc = "extracted"
    /\ \E i \in DOMAIN all_segments :
          /\ all_segments[i].type = "horizontal"
          /\ walls[i].length > resolution
          /\ walls[i].width > resolution
    /\ \E i \in DOMAIN all_segments :
          /\ all_segments[i].type = "vertical"
          /\ walls[i].length > resolution
          /\ walls[i].width = resolution

\* ------------------------------------------------------------------- C28
\* the occupied thresholds above 1/255 and up to 1.0
ThresholdsAboveOneLevel == {t \in Thresholds : 2 < t /\ t <= ProbScale}

\* C28: once the extractor has read an enhanced image, the cells it classifies
\* as occupied are exactly the cells the enhancer rendered occupied (0), under
\* the negate MapMetadata ended with (0 or 1) and under every occupied_thresh
\* in (1/255, 1].
C28_ExtractorAgreesWithEnhancer ==
    (pc = "extracted" /\ was_enhanced /\ pgm_path_to_use = "enhanced") =>
        /\ OccupiedCells(occupied_grid, height, width) = OccupiedMask(enhanced_data)
        /\ \A thresh \in ThresholdsAboveOneLevel :
              OccupiedCells(GetOccupiedGrid(image_data, height, width, negate, thresh),
                            height, width) = OccupiedMask(enhanced_data)

\* ------------------------------------------------------------------- C29
\* convert has returned or raised
ConvertEnded == pc \in {"done", "failed"}

\* C29: when convert has ended without keep_cleaned_pgm, by returning or by
\* raising, no enhanced image file written by the run is left; with
\* keep_cleaned_pgm the enhanced image written by the run is still there, next
\* to the original image.
C29_EnhancedFileRemovedUnlessKept ==
    ConvertEnded =>
        /\ ~keep_cleaned_pgm => ~enhanced_file.exists
        /\ (keep_cleaned_pgm /\ enhanced_pgm_path # "none") =>
              (enhanced_file.exists /\ enhanced_pgm_path = "beside_original")

====
